---- MODULE Spec2Model ----
(***************************************************************************)
(* Two-way directory synchronizer                                          *)
(* (file-system-projects/directory-sync/directory_synchronizer.py).        *)
(*                                                                         *)
(* The two directory trees, the DirectorySync object and the position of   *)
(* main() are the state.  A file is its content, its modification time and *)
(* whether it can be read; a tree maps the relative paths of the files it  *)
(* holds to files.  Sizes and absolute paths are only displayed by the     *)
(* program and are left out of the catalog records.                        *)
(***************************************************************************)
EXTENDS Integers, Sequences, FiniteSets, TLC

\* ------------------------------------------------------------- bounds
MaxMtime == 2      \* modification times range over 1..MaxMtime
MaxClock == 3      \* readings of datetime.now() range over 1..MaxClock
MaxInvalid == 1    \* invalid answers typed at one conflict prompt
MaxExecuted == 2   \* actions one DirectorySync object is handed over its sync calls

Names == {"a.txt", "d/b.txt"}
Contents == {"x", "y"}
Mtimes == 1..MaxMtime

\* ------------------------------------------------------------- values
\* Python's None and an optional value: the empty set or a singleton.
None == {}
Some(x) == {x}

\* A relative path; backup holds the <unixtime> suffixes appended by
\* f"{path}.conflict_backup_{unixtime}" (empty for a plain path).
PlainPath(n) == [name |-> n, backup |-> <<>>]
BackupPath(p, t) == [name |-> p.name, backup |-> Append(p.backup, t)]
PlainPaths == {PlainPath(n) : n \in Names}

\* members of the SyncAction enum carry their value; a bare string is no member
EnumMember(v) == [enum |-> TRUE, value |-> v]
COPY_TO_TARGET == EnumMember("copy_to_target")
COPY_TO_SOURCE == EnumMember("copy_to_source")
UPDATE_TARGET == EnumMember("update_target")
UPDATE_SOURCE == EnumMember("update_source")
DELETE_FROM_TARGET == EnumMember("delete_from_target")
DELETE_FROM_SOURCE == EnumMember("delete_from_source")
CONFLICT == EnumMember("conflict")
RENAME_TARGET == [enum |-> FALSE, value |-> "rename_target"]

\* An unreadable file never shows its content to the program (hashing and
\* copying it both fail), so unreadable files are given one content.
Files ==
  {f \in [content : Contents, mtime : Mtimes, readable : BOOLEAN] :
     ~f.readable => f.content = "x"}
Trees == UNION {[S -> Files] : S \in SUBSET PlainPaths}
EmptyTree == [p \in {} |-> [content |-> "x", mtime |-> 1, readable |-> TRUE]]

Perms(S) ==
  {s \in [1..Cardinality(S) -> S] : \A a, b \in 1..Cardinality(S) : s[a] = s[b] => a = b}

VARIABLES
  srcExists, tgtExists,   \* whether the two root directories exist
  srcTree, tgtTree,       \* the files under each root
  pc,                     \* position of main()
  source_files, target_files,  \* the catalogs scanned by analyze()
  actions,                \* main's action list, the list handed to sync()
  conflicts,              \* main's conflict list
  resolved_actions,       \* resolve_conflicts' result under construction
  ci,                     \* index of the conflict being prompted
  nInvalid,               \* invalid answers given at the current prompt
  i,                      \* loop index of sync()
  results,                \* sync()'s result counts
  self_actions,           \* DirectorySync.actions, the executed-action list
  logFile,                \* the log file on disk: None or its JSON document
  now,                    \* the reading datetime.now() returns next
  strategy,               \* how conflicts were handled
  syncMode,               \* how sync() was called: "not_called", "dry", "real"
  nSkipped,               \* conflicts answered 'skip'
  attempts,               \* the calls of _execute_action: <<index, returned>>
  tree0,                  \* the two trees as the run found them
  confirm,                \* the answer to main's confirmation: "none", "y", "n"
  choices                 \* the valid answers given to the conflict prompts,
                          \* each with the clock reading it was given at

vars ==
  <<srcExists, tgtExists, srcTree, tgtTree, pc, source_files, target_files,
    actions, conflicts, resolved_actions, ci, nInvalid, i, results,
    self_actions, logFile, now, strategy, syncMode, nSkipped, attempts, tree0,
    confirm, choices>>

fsVars == <<srcExists, tgtExists, srcTree, tgtTree>>
scanVars == <<source_files, target_files>>
resolveVars == <<resolved_actions, ci, nInvalid, nSkipped>>
syncVars == <<i, results, self_actions, logFile, attempts, syncMode>>

\* datetime.now(): a logical clock, one tick per reading, saturating at MaxClock
Tick(t) == IF t < MaxClock THEN t + 1 ELSE t

\* ------------------------------------------------------------- Scanner
\* hashlib.md5 of the two contents
MD5(c) ==
  IF c = "x" THEN "9dd4e461268c8034f5c8564e155c67a6"
  ELSE "415290769594460e2e485922904f345d"

GetFileHash(f) == IF f.readable THEN MD5(f.content) ELSE ""

GetFileInfo(p, f) == [path |-> p, mtime |-> f.mtime, hash |-> GetFileHash(f)]

ScanDirectory(exists, tree) ==
  IF ~exists THEN [p \in {} |-> GetFileInfo(p, tree[p])]
  ELSE [p \in DOMAIN tree |-> GetFileInfo(p, tree[p])]

\* dict.get(key): None when the key is missing
DictGet(d, k) == IF k \in DOMAIN d THEN Some(d[k]) ELSE None

\* ------------------------------------------------------------- Differencer
\* An action dict; the keys a dict lacks are None.
Action(kind, p, si, ti) ==
  [action |-> kind, path |-> p, source_info |-> si, target_info |-> ti,
   new_path |-> None, timestamp |-> None, status |-> None]

\* mutant: the timestamps are compared with >=, so a tie updates the target
ClassifyPath_TieGoesToSource(sf, tf, p) ==
  LET si == DictGet(sf, p)
      ti == DictGet(tf, p)
  IN  IF si # None /\ ti = None THEN <<Action(COPY_TO_TARGET, p, si, None)>>
      ELSE IF ti # None /\ si = None THEN <<Action(COPY_TO_SOURCE, p, None, ti)>>
      ELSE IF si # None /\ ti # None /\ sf[p].hash # tf[p].hash
      THEN IF sf[p].mtime >= tf[p].mtime THEN <<Action(UPDATE_TARGET, p, si, ti)>>
           ELSE <<Action(UPDATE_SOURCE, p, si, ti)>>
      ELSE <<>>

\* mutant: a one-sided file is copied to the side that already holds it
ClassifyPath_CopyWrongWay(sf, tf, p) ==
  LET si == DictGet(sf, p)
      ti == DictGet(tf, p)
  IN  IF si # None /\ ti = None THEN <<Action(COPY_TO_SOURCE, p, si, None)>>
      ELSE IF ti # None /\ si = None THEN <<Action(COPY_TO_TARGET, p, None, ti)>>
      ELSE IF si # None /\ ti # None /\ sf[p].hash # tf[p].hash
      THEN IF sf[p].mtime > tf[p].mtime THEN <<Action(UPDATE_TARGET, p, si, ti)>>
           ELSE IF tf[p].mtime > sf[p].mtime THEN <<Action(UPDATE_SOURCE, p, si, ti)>>
           ELSE <<Action(CONFLICT, p, si, ti)>>
      ELSE <<>>

\* mutant: the timestamps are compared without looking at the digests first
ClassifyPath_IgnoresDigest(sf, tf, p) ==
  LET si == DictGet(sf, p)
      ti == DictGet(tf, p)
  IN  IF si # None /\ ti = None THEN <<Action(COPY_TO_TARGET, p, si, None)>>
      ELSE IF ti # None /\ si = None THEN <<Action(COPY_TO_SOURCE, p, None, ti)>>
      ELSE IF si # None /\ ti # None
      THEN IF sf[p].mtime > tf[p].mtime THEN <<Action(UPDATE_TARGET, p, si, ti)>>
           ELSE IF tf[p].mtime > sf[p].mtime THEN <<Action(UPDATE_SOURCE, p, si, ti)>>
           ELSE IF sf[p].hash # tf[p].hash THEN <<Action(CONFLICT, p, si, ti)>>
           ELSE <<>>
      ELSE <<>>

\* mutant: the older side is taken as the donor
ClassifyPath_OlderWins(sf, tf, p) ==
  LET si == DictGet(sf, p)
      ti == DictGet(tf, p)
  IN  IF si # None /\ ti = None THEN <<Action(COPY_TO_TARGET, p, si, None)>>
      ELSE IF ti # None /\ si = None THEN <<Action(COPY_TO_SOURCE, p, None, ti)>>
      ELSE IF si # None /\ ti # None /\ sf[p].hash # tf[p].hash
      THEN IF sf[p].mtime > tf[p].mtime THEN <<Action(UPDATE_SOURCE, p, si, ti)>>
           ELSE IF tf[p].mtime > sf[p].mtime THEN <<Action(UPDATE_TARGET, p, si, ti)>>
           ELSE <<Action(CONFLICT, p, si, ti)>>
      ELSE <<>>

\* The body of the loop of _determine_sync_actions: what one path appends.
ClassifyPath(sf, tf, p) ==
  LET si == DictGet(sf, p)
      ti == DictGet(tf, p)
  IN  IF si # None /\ ti = None THEN <<Action(COPY_TO_TARGET, p, si, None)>>
      ELSE IF ti # None /\ si = None THEN <<Action(COPY_TO_SOURCE, p, None, ti)>>
      ELSE IF si # None /\ ti # None /\ sf[p].hash # tf[p].hash
      THEN IF sf[p].mtime > tf[p].mtime THEN <<Action(UPDATE_TARGET, p, si, ti)>>
           ELSE IF tf[p].mtime > sf[p].mtime THEN <<Action(UPDATE_SOURCE, p, si, ti)>>
           ELSE <<Action(CONFLICT, p, si, ti)>>
      ELSE <<>>

\* mutant: all_paths is the source's keys followed by the target's keys, not
\* their union, so a path both catalogs hold is classified twice
RECURSIVE ClassifyEach(_, _, _)
ClassifyEach(sf, tf, order) ==
  IF order = <<>> THEN <<>>
  ELSE ClassifyPath(sf, tf, Head(order)) \o ClassifyEach(sf, tf, Tail(order))

DetermineSyncActions_KeysNotUnion(sf, tf, order) ==
  ClassifyEach(sf, tf,
    order \o SelectSeq(order, LAMBDA p : p \in DOMAIN sf /\ p \in DOMAIN tf))

\* _determine_sync_actions; order is the order in which the set all_paths is
\* iterated, which Python leaves open.
RECURSIVE DetermineSyncActions(_, _, _)
DetermineSyncActions(sf, tf, order) ==
  IF order = <<>> THEN <<>>
  ELSE ClassifyPath(sf, tf, Head(order)) \o DetermineSyncActions(sf, tf, Tail(order))

IsConflict(a) == a.action = CONFLICT
\* mutant: the conflicts are copied to their own list but left in the plan
IsRegular_KeepsConflicts(a) == TRUE

IsRegular(a) == a.action # CONFLICT

\* ------------------------------------------------------------- Executor
FileSystem == [srcExists |-> srcExists, srcTree |-> srcTree,
               tgtExists |-> tgtExists, tgtTree |-> tgtTree]

\* mutant: the copy leaves path p as the only file of the receiving tree
WriteFile_DropsOthers(tree, p, f) == [q \in {p} |-> f]

\* the tree with file f written at path p
WriteFile(tree, p, f) ==
  [q \in (DOMAIN tree) \cup {p} |-> IF q = p THEN f ELSE tree[q]]

\* shutil.copy2 can only succeed when the donor file exists and can be read
CanRead(exists, tree, p) == exists /\ p \in DOMAIN tree /\ tree[p].readable

Returned(ok, fs) == [ok |-> ok, fs |-> fs]

\* shutil.copy2(source_path, target_path), after target_path.parent.mkdir
\* when mkdir is set.  envOk is the environment letting the step through
\* (permissions, disk space); a failed step raises and changes nothing.
CopyToTargetSide(fs, p, mkdir, envOk) ==
  IF envOk /\ CanRead(fs.srcExists, fs.srcTree, p) /\ (mkdir \/ fs.tgtExists)
  THEN Returned(TRUE, [fs EXCEPT !.tgtExists = TRUE,
                                 !.tgtTree = WriteFile(fs.tgtTree, p, fs.srcTree[p])])
  ELSE Returned(FALSE, fs)

CopyToSourceSide(fs, p, mkdir, envOk) ==
  IF envOk /\ CanRead(fs.tgtExists, fs.tgtTree, p) /\ (mkdir \/ fs.srcExists)
  THEN Returned(TRUE, [fs EXCEPT !.srcExists = TRUE,
                                 !.srcTree = WriteFile(fs.srcTree, p, fs.tgtTree[p])])
  ELSE Returned(FALSE, fs)

\* mutant: the executor has no branch for UPDATE_TARGET
ExecuteAction_NoUpdateTarget(action, fs, envOk) ==
  IF action.action = COPY_TO_TARGET THEN CopyToTargetSide(fs, action.path, TRUE, envOk)
  ELSE IF action.action = COPY_TO_SOURCE THEN CopyToSourceSide(fs, action.path, TRUE, envOk)
  ELSE IF action.action = UPDATE_SOURCE THEN CopyToSourceSide(fs, action.path, FALSE, envOk)
  ELSE Returned(TRUE, fs)

\* _execute_action: the value returned and the file system it leaves.  A
\* kind none of the four branches matches falls through to return True.
ExecuteAction(action, fs, envOk) ==
  IF action.action = COPY_TO_TARGET THEN CopyToTargetSide(fs, action.path, TRUE, envOk)
  ELSE IF action.action = COPY_TO_SOURCE THEN CopyToSourceSide(fs, action.path, TRUE, envOk)
  ELSE IF action.action = UPDATE_TARGET THEN CopyToTargetSide(fs, action.path, FALSE, envOk)
  ELSE IF action.action = UPDATE_SOURCE THEN CopyToSourceSide(fs, action.path, FALSE, envOk)
  ELSE Returned(TRUE, fs)

\* the action dict after sync has processed it: stamped when it succeeded
Processed(action, ok, t) ==
  IF ok THEN [action EXCEPT !.timestamp = Some(t), !.status = Some("success")]
  ELSE action

\* mutant: every processed action is appended to the executed-action list
Executed_KeepsFailures(executed, action, ok) == Append(executed, action)

\* self.actions after sync has processed an action
Executed(executed, action, ok) == IF ok THEN Append(executed, action) ELSE executed

NoResults == [success |-> 0, failed |-> 0, skipped |-> 0]

Counted(res, ok) ==
  IF ok THEN [res EXCEPT !.success = @ + 1] ELSE [res EXCEPT !.failed = @ + 1]

\* ------------------------------------------------------------- SyncLog
\* one entry of the log's "actions": the kind is written as its value string
LogEntry(a) ==
  [action |-> a.action.value, path |-> a.path,
   timestamp |-> a.timestamp, status |-> a.status]

\* the JSON document _save_sync_log writes
LogData(executed, t) ==
  [timestamp |-> t, actions |-> [k \in 1..Len(executed) |-> LogEntry(executed[k])]]

\* _save_sync_log: open() or json.dump may raise; the error is printed and
\* swallowed, the file is then left as it was
SaveSyncLog(file, executed, t, writeOk) ==
  IF writeOk THEN Some(LogData(executed, t)) ELSE file

\* mutant: the error of a failed log write reaches sync's caller, the counts
\* are not returned
SyncReturns_LogFailurePropagates(res, writeOk) == IF writeOk THEN res ELSE NoResults

\* what sync returns at line 246, after _save_sync_log: the counts, whether
\* or not the log could be written
SyncReturns(res, writeOk) == res

\* ------------------------------------------------------------- ConflictResolver
\* mutant: 's' and 't' are taken the other way round
Resolve_WinnersSwapped(conflict, choice, t) ==
  IF choice = "s"
  THEN <<Action(UPDATE_SOURCE, conflict.path, conflict.source_info, conflict.target_info)>>
  ELSE IF choice = "t"
  THEN <<Action(UPDATE_TARGET, conflict.path, conflict.source_info, conflict.target_info)>>
  ELSE IF choice = "k"
  THEN << [Action(RENAME_TARGET, conflict.path, conflict.source_info, conflict.target_info)
             EXCEPT !.new_path = Some(BackupPath(conflict.path, t))],
          Action(UPDATE_TARGET, conflict.path, conflict.source_info, conflict.target_info) >>
  ELSE <<>>

\* what resolve_conflicts appends for a valid answer to the prompt; t is the
\* clock reading that names the backup
Resolve(conflict, choice, t) ==
  IF choice = "s"
  THEN <<Action(UPDATE_TARGET, conflict.path, conflict.source_info, conflict.target_info)>>
  ELSE IF choice = "t"
  THEN <<Action(UPDATE_SOURCE, conflict.path, conflict.source_info, conflict.target_info)>>
  ELSE IF choice = "k"
  THEN << [Action(RENAME_TARGET, conflict.path, conflict.source_info, conflict.target_info)
             EXCEPT !.new_path = Some(BackupPath(conflict.path, t))],
          Action(UPDATE_TARGET, conflict.path, conflict.source_info, conflict.target_info) >>
  ELSE <<>>

ValidChoices == {"s", "t", "k", "skip"}

\* mutant: the two branches of the loop are swapped
AutoResolved_SidesSwapped(cs, side) ==
  [k \in 1..Len(cs) |->
     Action(IF side = "source" THEN UPDATE_SOURCE ELSE UPDATE_TARGET,
            cs[k].path, cs[k].source_info, cs[k].target_info)]

\* main's --auto-resolve loop: one action per conflict
AutoResolved(cs, side) ==
  [k \in 1..Len(cs) |->
     Action(IF side = "source" THEN UPDATE_TARGET ELSE UPDATE_SOURCE,
            cs[k].path, cs[k].source_info, cs[k].target_info)]

\* ------------------------------------------------------------- the run

Init ==
  /\ srcExists \in BOOLEAN
  /\ tgtExists \in BOOLEAN
  /\ srcTree \in Trees
  /\ tgtTree \in Trees
  /\ (~srcExists => srcTree = EmptyTree)
  /\ (~tgtExists => tgtTree = EmptyTree)
  /\ pc = "main"
  /\ source_files = ScanDirectory(FALSE, EmptyTree)
  /\ target_files = ScanDirectory(FALSE, EmptyTree)
  /\ actions = <<>>
  /\ conflicts = <<>>
  /\ resolved_actions = <<>>
  /\ ci = 0
  /\ nInvalid = 0
  /\ i = 0
  /\ results = NoResults
  /\ self_actions = <<>>
  /\ logFile = None
  /\ now = 1
  /\ strategy = "none"
  /\ syncMode = "not_called"
  /\ nSkipped = 0
  /\ attempts = <<>>
  /\ tree0 = [src |-> srcTree, tgt |-> tgtTree, tgtExists |-> tgtExists]
  /\ confirm = "none"
  /\ choices = <<>>

\* mutant: the message is printed but main does not return
MainSourceMissing_NoReturn ==
  /\ pc = "main"
  /\ ~srcExists
  /\ tgtExists' = TRUE
  /\ pc' = "analyze"
  /\ UNCHANGED <<srcExists, srcTree, tgtTree, scanVars, actions, conflicts,
                 resolveVars, syncVars, now, strategy, tree0, confirm, choices>>

\* main, lines 365-367: the source directory does not exist
MainSourceMissing ==
  /\ pc = "main"
  /\ ~srcExists
  /\ pc' = "exit"
  /\ UNCHANGED <<fsVars, scanVars, actions, conflicts, resolveVars, syncVars,
                 now, strategy, tree0, confirm, choices>>

\* main, lines 369-373: create the target directory, build the synchronizer
MainSetup ==
  /\ pc = "main"
  /\ srcExists
  /\ tgtExists' = TRUE
  /\ pc' = "analyze"
  /\ UNCHANGED <<srcExists, srcTree, tgtTree, scanVars, actions, conflicts,
                 resolveVars, syncVars, now, strategy, tree0, confirm, choices>>

\* analyze(): scan both roots, diff, split the conflicts off
Analyze ==
  /\ pc = "analyze"
  /\ LET sf == ScanDirectory(srcExists, srcTree)
         tf == ScanDirectory(tgtExists, tgtTree)
     IN  /\ source_files' = sf
         /\ target_files' = tf
         /\ \E order \in Perms((DOMAIN sf) \cup (DOMAIN tf)) :
              LET all == DetermineSyncActions(sf, tf, order)
              IN  /\ actions' = SelectSeq(all, IsRegular)
                  /\ conflicts' = SelectSeq(all, IsConflict)
  /\ pc' = "conflicts"
  /\ UNCHANGED <<fsVars, resolveVars, syncVars, now, strategy, tree0, confirm, choices>>

\* main, line 382: neither branch is taken when there is no conflict
NoConflicts ==
  /\ pc = "conflicts"
  /\ conflicts = <<>>
  /\ pc' = "execute"
  /\ UNCHANGED <<fsVars, scanVars, actions, conflicts, resolveVars, syncVars,
                 now, strategy, tree0, confirm, choices>>

\* main, lines 385-401: --auto-resolve source | target
AutoResolve ==
  /\ pc = "conflicts"
  /\ conflicts # <<>>
  /\ \E side \in {"source", "target"} :
       /\ actions' = actions \o AutoResolved(conflicts, side)
       /\ strategy' = side
  /\ pc' = "execute"
  /\ UNCHANGED <<fsVars, scanVars, conflicts, resolveVars, syncVars, now, tree0, confirm, choices>>

\* main, line 383, and resolve_conflicts up to its first prompt
ResolveConflictsBegin ==
  /\ pc = "conflicts"
  /\ conflicts # <<>>
  /\ strategy' = "interactive"
  /\ resolved_actions' = <<>>
  /\ ci' = 1
  /\ nInvalid' = 0
  /\ pc' = "prompt"
  /\ UNCHANGED <<fsVars, scanVars, actions, conflicts, nSkipped, syncVars, now, tree0, confirm, choices>>

\* one valid answer to the prompt: the conflict is settled and the loop moves
\* on; after the last conflict main extends its action list (line 384)
PromptValid ==
  /\ pc = "prompt"
  /\ \E choice \in ValidChoices :
       LET res == resolved_actions \o Resolve(conflicts[ci], choice, now)
       IN  /\ now' = IF choice = "k" THEN Tick(now) ELSE now
           /\ nSkipped' = IF choice = "skip" THEN nSkipped + 1 ELSE nSkipped
           /\ resolved_actions' = res
           /\ nInvalid' = 0
           /\ choices' = Append(choices, <<choice, now>>)
           /\ IF ci < Len(conflicts)
              THEN /\ ci' = ci + 1
                   /\ pc' = "prompt"
                   /\ actions' = actions
              ELSE /\ ci' = ci
                   /\ pc' = "execute"
                   /\ actions' = actions \o res
  /\ UNCHANGED <<fsVars, scanVars, conflicts, syncVars, strategy, tree0, confirm>>

\* mutant: an answer that is not recognised is taken as a skip
PromptInvalid_DefaultsToSkip ==
  /\ pc = "prompt"
  /\ nInvalid < MaxInvalid
  /\ nInvalid' = nInvalid + 1
  /\ IF ci < Len(conflicts)
     THEN /\ ci' = ci + 1
          /\ pc' = "prompt"
          /\ actions' = actions
     ELSE /\ ci' = ci
          /\ pc' = "execute"
          /\ actions' = actions \o resolved_actions
  /\ UNCHANGED <<fsVars, scanVars, conflicts, resolved_actions,
                 nSkipped, syncVars, now, strategy, tree0, confirm, choices>>

\* any other answer: "Invalid choice", the same conflict is prompted again
PromptInvalid ==
  /\ pc = "prompt"
  /\ nInvalid < MaxInvalid
  /\ nInvalid' = nInvalid + 1
  /\ UNCHANGED <<fsVars, scanVars, pc, actions, conflicts, resolved_actions, ci,
                 nSkipped, syncVars, now, strategy, tree0, confirm, choices>>

\* main, lines 412-413: nothing to do
MainNoActions ==
  /\ pc = "execute"
  /\ actions = <<>>
  /\ pc' = "exit"
  /\ UNCHANGED <<fsVars, scanVars, actions, conflicts, resolveVars, syncVars,
                 now, strategy, tree0, confirm, choices>>

\* the loop of sync is over after the last action of the list
LoopDone_BreaksOnFailure(idx, n, ok) == idx = n \/ ~ok

LoopDone(idx, n, ok) == idx = n

\* sync(actions, dry_run=True), lines 219-221
SyncDry ==
  /\ results' = [success |-> Len(actions), failed |-> 0, skipped |-> 0]
  /\ syncMode' = "dry"
  /\ pc' = "exit"
  /\ UNCHANGED <<fsVars, scanVars, actions, conflicts, resolveVars, i,
                 self_actions, logFile, attempts, now, strategy, tree0, choices>>

\* sync, lines 223-225: a real run starts; with an empty list the loop is
\* skipped and the log is saved at once
SyncReal(mode) ==
  /\ syncMode' = mode
  /\ attempts' = <<>>
  /\ IF actions = <<>>
     THEN /\ \E writeOk \in BOOLEAN :
               /\ logFile' = SaveSyncLog(logFile, self_actions, now, writeOk)
               /\ results' = SyncReturns(NoResults, writeOk)
          /\ now' = Tick(now)
          /\ pc' = "exit"
          /\ i' = i
     ELSE /\ results' = NoResults
          /\ i' = 1
          /\ pc' = "sync"
          /\ UNCHANGED <<logFile, now>>
  /\ UNCHANGED <<fsVars, scanVars, actions, conflicts, resolveVars,
                 self_actions, strategy, tree0, choices>>

\* mutant: the dry_run flag is not looked at
Sync_IgnoresDryRun(dry_run) == SyncReal(IF dry_run THEN "dry" ELSE "real")

Sync(dry_run) == IF dry_run THEN SyncDry ELSE SyncReal("real")

\* main, line 411 under --dry-run: no confirmation is asked
MainDryRun ==
  /\ pc = "execute"
  /\ actions # <<>>
  /\ Sync(TRUE)
  /\ UNCHANGED confirm

\* main, lines 405-406 without --dry-run: ask for the confirmation
MainAskConfirm ==
  /\ pc = "execute"
  /\ actions # <<>>
  /\ pc' = "confirm"
  /\ UNCHANGED <<fsVars, scanVars, actions, conflicts, resolveVars, syncVars,
                 now, strategy, tree0, confirm, choices>>

\* the confirmation is answered 'y': sync(actions, dry_run=False)
MainConfirmed ==
  /\ pc = "confirm"
  /\ confirm' = "y"
  /\ Sync(FALSE)

\* mutant: the answer is read but the run goes on whatever it is
MainCancelled_SyncsAnyway ==
  /\ pc = "confirm"
  /\ confirm' = "n"
  /\ Sync(FALSE)

\* any other answer: "Synchronization cancelled."
MainCancelled ==
  /\ pc = "confirm"
  /\ confirm' = "n"
  /\ pc' = "exit"
  /\ UNCHANGED <<fsVars, scanVars, actions, conflicts, resolveVars, syncVars,
                 now, strategy, tree0, choices>>

\* one iteration of sync's loop, lines 227-237; the iteration that ends the
\* loop also saves the log and returns, lines 239-246
SyncStep ==
  /\ pc = "sync"
  /\ i \in 1..Len(actions)
  /\ \E envOk \in BOOLEAN :
       LET ret == ExecuteAction(actions[i], FileSystem, envOk)
           done == Processed(actions[i], ret.ok, now)
           executed == Executed(self_actions, done, ret.ok)
           t == IF ret.ok THEN Tick(now) ELSE now
       IN  /\ srcExists' = ret.fs.srcExists
           /\ srcTree' = ret.fs.srcTree
           /\ tgtExists' = ret.fs.tgtExists
           /\ tgtTree' = ret.fs.tgtTree
           /\ actions' = [actions EXCEPT ![i] = done]
           /\ self_actions' = executed
           /\ attempts' = Append(attempts, <<i, ret.ok>>)
           /\ IF LoopDone(i, Len(actions), ret.ok)
              THEN /\ \E writeOk \in BOOLEAN :
                        /\ logFile' = SaveSyncLog(logFile, executed, t, writeOk)
                        /\ results' = SyncReturns(Counted(results, ret.ok), writeOk)
                   /\ now' = Tick(t)
                   /\ pc' = "exit"
                   /\ i' = i
              ELSE /\ results' = Counted(results, ret.ok)
                   /\ logFile' = logFile
                   /\ now' = t
                   /\ pc' = "sync"
                   /\ i' = i + 1
  /\ UNCHANGED <<scanVars, conflicts, resolveVars, strategy, syncMode, tree0, confirm, choices>>

Next ==
  \/ MainSourceMissing
  \/ MainSetup
  \/ Analyze
  \/ NoConflicts
  \/ AutoResolve
  \/ ResolveConflictsBegin
  \/ PromptValid
  \/ PromptInvalid
  \/ MainNoActions
  \/ MainDryRun
  \/ MainAskConfirm
  \/ MainConfirmed
  \/ MainCancelled
  \/ SyncStep

Spec == Init /\ [][Next]_vars

\* ------------------------------------------------------------- properties
\* the indices of the entries of a list that are about path p
ForPath(list, p) == {k \in 1..Len(list) : list[k].path = p}

InSource(p) == p \in DOMAIN source_files
InTarget(p) == p \in DOMAIN target_files
InBoth(p) == InSource(p) /\ InTarget(p)

\* analyze() has just returned its two lists to main
AnalyzeReturned == pc = "conflicts"

\* C1: analyze yields a conflict for a path if and only if both catalogs hold
\* the path, the digests differ and the modification times are equal; the
\* conflict list holds nothing but conflicts and the action list none.
C1_ConflictIffTie ==
  AnalyzeReturned =>
    /\ \A p \in PlainPaths :
         (ForPath(conflicts, p) # {}) <=>
           (/\ InBoth(p)
            /\ source_files[p].hash # target_files[p].hash
            /\ source_files[p].mtime = target_files[p].mtime)
    /\ \A k \in 1..Len(conflicts) : conflicts[k].action = CONFLICT
    /\ \A k \in 1..Len(actions) : actions[k].action # CONFLICT

C1_Witness ==
  /\ AnalyzeReturned
  /\ conflicts # <<>>
  /\ actions # <<>>

\* C2: a path only the source holds gets exactly one action, a CopyToTarget;
\* a path only the target holds gets exactly one action, a CopyToSource.
C2_OneSidedPathsAreCopied ==
  AnalyzeReturned =>
    \A p \in PlainPaths :
      /\ (InSource(p) /\ ~InTarget(p)) =>
           /\ Cardinality(ForPath(actions, p)) = 1
           /\ \A k \in ForPath(actions, p) : actions[k].action = COPY_TO_TARGET
           /\ ForPath(conflicts, p) = {}
      /\ (InTarget(p) /\ ~InSource(p)) =>
           /\ Cardinality(ForPath(actions, p)) = 1
           /\ \A k \in ForPath(actions, p) : actions[k].action = COPY_TO_SOURCE
           /\ ForPath(conflicts, p) = {}

C2_Witness ==
  /\ AnalyzeReturned
  /\ \E p, q \in PlainPaths :
       /\ InSource(p) /\ ~InTarget(p)
       /\ InTarget(q) /\ ~InSource(q)

\* C3: a path both catalogs hold with equal digests gets no action and no
\* conflict, whatever the two modification times are.
C3_EqualDigestsNoAction ==
  AnalyzeReturned =>
    \A p \in PlainPaths :
      (InBoth(p) /\ source_files[p].hash = target_files[p].hash) =>
        /\ ForPath(actions, p) = {}
        /\ ForPath(conflicts, p) = {}

C3_Witness ==
  /\ AnalyzeReturned
  /\ \E p, q \in PlainPaths :
       /\ InBoth(p) /\ InBoth(q)
       /\ source_files[p].hash = target_files[p].hash
       /\ source_files[q].hash = target_files[q].hash
       /\ source_files[p].mtime > target_files[p].mtime
       /\ source_files[q].mtime < target_files[q].mtime

\* C4: a path both catalogs hold with differing digests gets an UpdateTarget
\* exactly when the source is strictly newer and an UpdateSource exactly when
\* the target is strictly newer.
C4_NewerSideIsDonor ==
  AnalyzeReturned =>
    \A p \in PlainPaths :
      (InBoth(p) /\ source_files[p].hash # target_files[p].hash) =>
        /\ (\E k \in ForPath(actions, p) : actions[k].action = UPDATE_TARGET)
             <=> source_files[p].mtime > target_files[p].mtime
        /\ (\E k \in ForPath(actions, p) : actions[k].action = UPDATE_SOURCE)
             <=> target_files[p].mtime > source_files[p].mtime
        /\ Cardinality(ForPath(actions, p)) <= 1

C4_Witness ==
  /\ AnalyzeReturned
  /\ \E p, q \in PlainPaths :
       /\ InBoth(p) /\ InBoth(q)
       /\ source_files[p].hash # target_files[p].hash
       /\ source_files[q].hash # target_files[q].hash
       /\ source_files[p].mtime > target_files[p].mtime
       /\ source_files[q].mtime < target_files[q].mtime

\* a real run of sync has returned
RealRunReturned == pc = "exit" /\ syncMode = "real"

\* rescanning both roots and re-diffing yields no action and no conflict
InSync ==
  LET sf == ScanDirectory(srcExists, srcTree)
      tf == ScanDirectory(tgtExists, tgtTree)
  IN  \A order \in Perms((DOMAIN sf) \cup (DOMAIN tf)) :
        DetermineSyncActions(sf, tf, order) = <<>>

\* C5 as stated: after a real run of the plan in which every action
\* succeeded, a rescan and re-diff of both roots yields an empty action list
\* and an empty conflict list.
C5_IdempotentAfterRun ==
  (RealRunReturned /\ results.failed = 0) => InSync

\* C5 as amended: the same, for the runs in which no conflict was answered
\* 'skip' (a skipped conflict adds nothing to the plan and is found again).
C5_IdempotentUnlessSkipped ==
  (RealRunReturned /\ results.failed = 0 /\ nSkipped = 0) => InSync

C5_Witness ==
  /\ RealRunReturned
  /\ results.failed = 0
  /\ nSkipped = 0
  /\ conflicts # <<>>
  /\ \E k, m \in 1..Len(actions) :
       /\ actions[k].action = COPY_TO_TARGET
       /\ actions[m].action \in {UPDATE_TARGET, UPDATE_SOURCE}
  /\ InSync

\* C6: a real run attempts every action of the list exactly once and in list
\* order, whether or not earlier actions failed, and on return success plus
\* failed is the length of the list.
C6_EveryActionAttemptedOnce ==
  syncMode = "real" =>
    /\ \A k \in 1..Len(attempts) : attempts[k][1] = k
    /\ pc = "sync" => Len(attempts) = i - 1
    /\ results.success = Cardinality({k \in 1..Len(attempts) : attempts[k][2]})
    /\ results.failed = Cardinality({k \in 1..Len(attempts) : ~attempts[k][2]})
    /\ pc = "exit" =>
         /\ Len(attempts) = Len(actions)
         /\ results.success + results.failed = Len(actions)

C6_Witness ==
  /\ RealRunReturned
  /\ Len(actions) = 2
  /\ attempts = << <<1, FALSE>>, <<2, TRUE>> >>
  /\ results.success = 1
  /\ results.failed = 1

\* C7: a dry run of sync mutates nothing: a rescan of each root equals the
\* scan made before it, both trees are as they were, no action is stamped or
\* appended to the executed-action list and no log is written.
C7_DryRunMutatesNothing ==
  syncMode = "dry" =>
    /\ pc = "exit"
    /\ ScanDirectory(srcExists, srcTree) = source_files
    /\ ScanDirectory(tgtExists, tgtTree) = target_files
    /\ srcTree = tree0.src
    /\ tgtTree = tree0.tgt
    /\ \A k \in 1..Len(actions) :
         actions[k].status = None /\ actions[k].timestamp = None
    /\ self_actions = <<>>
    /\ logFile = None

C7_Witness ==
  /\ syncMode = "dry"
  /\ pc = "exit"
  /\ Len(actions) >= 2
  /\ results = [success |-> Len(actions), failed |-> 0, skipped |-> 0]

\* C8: after a keep-both resolution has been executed successfully, the
\* content the target held at the conflict path is found in the target tree
\* under the backup path, and the conflict path holds the source version.
C8_KeepBothKeepsBoth ==
  RealRunReturned =>
    \A k \in 1..Len(actions) :
      (/\ actions[k].action = RENAME_TARGET
       /\ actions[k].status = Some("success")
       /\ k < Len(actions)
       /\ actions[k + 1].status = Some("success")) =>
        \A b \in actions[k].new_path :
          /\ b \in DOMAIN tgtTree
          /\ tgtTree[b].content = tree0.tgt[actions[k].path].content
          /\ tgtTree[actions[k].path].content = tree0.src[actions[k].path].content

\* the entries of the persisted log
LoggedActions == UNION {{doc.actions} : doc \in logFile}
Succeeded == SelectSeq(attempts, LAMBDA a : a[2])

\* C9: after a real run on a fresh synchronizer the persisted log lists
\* exactly the actions that succeeded, in execution order, each with status
\* "success" and a timestamp; a failed action is not stamped.
C9_LogIsTheSucceededActions ==
  RealRunReturned =>
    /\ \A log \in LoggedActions :
         /\ Len(log) = Len(Succeeded)
         /\ \A k \in 1..Len(log) :
              /\ log[k].action = actions[Succeeded[k][1]].action.value
              /\ log[k].path = actions[Succeeded[k][1]].path
              /\ log[k].status = Some("success")
              /\ log[k].timestamp # None
    /\ \A k \in 1..Len(attempts) :
         ~attempts[k][2] =>
           /\ actions[attempts[k][1]].status = None
           /\ actions[attempts[k][1]].timestamp = None

C9_Witness ==
  /\ RealRunReturned
  /\ attempts = << <<1, TRUE>>, <<2, FALSE>>, <<3, TRUE>> >>
  /\ \E log \in LoggedActions : Len(log) = 2

\* C10: a path both catalogs hold where at least one record carries the empty
\* digest always gets an action or a conflict, also when both digests are
\* empty.
C10_EmptyDigestNeverEqual ==
  AnalyzeReturned =>
    \A p \in PlainPaths :
      (InBoth(p) /\ (source_files[p].hash = "" \/ target_files[p].hash = "")) =>
        ForPath(actions, p) \cup ForPath(conflicts, p) # {}

\* an action dict without the stamps sync puts on it
Unstamped(a) == [a EXCEPT !.timestamp = None, !.status = None]
LastActions(n) ==
  [k \in 1..n |-> Unstamped(actions[Len(actions) - n + k])]

\* every conflict has been resolved and the outcome merged into main's list
PlanFinal ==
  \/ /\ pc \notin {"main", "analyze", "conflicts"}
     /\ conflicts = <<>>
  \/ /\ strategy \in {"source", "target"}
     /\ Len(actions) >= Len(conflicts)
     /\ \A k \in 1..Len(conflicts) :
          /\ LastActions(Len(conflicts))[k].path = conflicts[k].path
          /\ LastActions(Len(conflicts))[k].action \in {UPDATE_TARGET, UPDATE_SOURCE}
  \/ /\ strategy = "interactive"
     /\ pc # "prompt"
     /\ Len(choices) = Len(conflicts)
     /\ Len(actions) >= Len(resolved_actions)
     /\ LastActions(Len(resolved_actions)) = resolved_actions

ExecutionStarted ==
  \/ pc = "sync"
  \/ attempts # <<>>
  \/ srcTree # tree0.src
  \/ tgtTree # tree0.tgt
  \/ logFile # None

\* C11: no file of either tree is copied or overwritten before the plan is
\* final: sync is called only after every conflict is resolved and merged,
\* a real run only after the confirmation was answered 'y'; after any other
\* answer the run ends with both trees as they were and no log.
C11_NothingRunsBeforePlanIsFinal ==
  /\ syncMode # "not_called" => PlanFinal
  /\ ExecutionStarted => (PlanFinal /\ syncMode = "real" /\ confirm = "y")
  /\ confirm = "n" =>
       /\ pc = "exit"
       /\ syncMode = "not_called"
       /\ srcTree = tree0.src
       /\ tgtTree = tree0.tgt
       /\ attempts = <<>>
       /\ logFile = None

C11_Witness ==
  /\ confirm = "n"
  /\ pc = "exit"
  /\ strategy = "interactive"
  /\ Len(choices) = Len(conflicts)
  /\ resolved_actions # <<>>
  /\ Len(actions) > Len(resolved_actions)

\* a real run is under way on a plan that interactive resolution completed
C11_ExecutingWitness ==
  /\ pc = "sync"
  /\ confirm = "y"
  /\ strategy = "interactive"
  /\ resolved_actions # <<>>
  /\ tgtTree # tree0.tgt

ConflictPaths == {conflicts[k].path : k \in 1..Len(conflicts)}

\* C12: an action of kind Conflict is never executed: under every strategy
\* the list main hands to sync holds no Conflict, only the differencer's
\* regular actions and actions produced by resolving the conflicts.
C12_NoConflictReachesSync ==
  pc \in {"execute", "confirm", "sync", "exit"} =>
    /\ \A k \in 1..Len(actions) :
         /\ actions[k].action # CONFLICT
         /\ actions[k].path \in ConflictPaths =>
              actions[k].action \in {UPDATE_TARGET, UPDATE_SOURCE, RENAME_TARGET}
         /\ actions[k].path \notin ConflictPaths =>
              actions[k].action \in
                {COPY_TO_TARGET, COPY_TO_SOURCE, UPDATE_TARGET, UPDATE_SOURCE}
    /\ \A k \in 1..Len(attempts) : actions[attempts[k][1]].action # CONFLICT
    /\ \A k \in 1..Len(self_actions) : self_actions[k].action # CONFLICT

C12_Witness ==
  /\ pc = "exit"
  /\ syncMode = "real"
  /\ strategy = "source"
  /\ Len(conflicts) = 1
  /\ Len(actions) = 2
  /\ \A k \in 1..Len(attempts) : attempts[k][2]

\* C13: under --auto-resolve source every conflict becomes exactly one
\* UpdateTarget for its path, under --auto-resolve target exactly one
\* UpdateSource; as many actions are added as there are conflicts and no
\* prompt is issued.
C13_AutoResolveOneActionPerConflict ==
  strategy \in {"source", "target"} =>
    /\ \A k \in 1..Len(conflicts) :
         /\ Cardinality(ForPath(actions, conflicts[k].path)) = 1
         /\ \A j \in ForPath(actions, conflicts[k].path) :
              actions[j].action =
                IF strategy = "source" THEN UPDATE_TARGET ELSE UPDATE_SOURCE
    /\ Cardinality({j \in 1..Len(actions) : actions[j].path \in ConflictPaths})
         = Len(conflicts)
    /\ ci = 0
    /\ choices = <<>>
    /\ nInvalid = 0
    /\ resolved_actions = <<>>

C13_Witness ==
  /\ strategy = "target"
  /\ pc = "execute"
  /\ Len(conflicts) = 2
  /\ Len(actions) = 2

\* C14: in interactive resolution an answer that is not an accepted choice
\* emits no action and leaves the same conflict at the prompt; the resolver
\* moves past a conflict only with a valid choice for that conflict.
C14_InvalidInputReprompts ==
  [][ pc = "prompt" =>
        /\ nInvalid' = nInvalid + 1 =>
             /\ pc' = "prompt"
             /\ ci' = ci
             /\ resolved_actions' = resolved_actions
             /\ actions' = actions
             /\ choices' = choices
             /\ nSkipped' = nSkipped
        /\ (ci' # ci \/ pc' # "prompt" \/ resolved_actions' # resolved_actions) =>
             /\ Len(choices') = Len(choices) + 1
             /\ Len(choices') = ci
             /\ choices'[ci][1] \in ValidChoices
    ]_vars

C14_Witness ==
  /\ pc = "prompt"
  /\ ci = 2
  /\ nInvalid >= 1
  /\ Len(choices) = 1

\* the kinds a choice stands for, each on the conflict's path
KindsChosen(choice) ==
  IF choice = "s" THEN <<UPDATE_TARGET>>
  ELSE IF choice = "t" THEN <<UPDATE_SOURCE>>
  ELSE IF choice = "k" THEN <<RENAME_TARGET, UPDATE_TARGET>>
  ELSE <<>>

RECURSIVE Chosen(_)
Chosen(n) ==
  IF n = 0 THEN <<>>
  ELSE Chosen(n - 1) \o
       [k \in 1..Len(KindsChosen(choices[n][1])) |->
          <<KindsChosen(choices[n][1])[k], conflicts[n].path>>]

\* C15: in interactive resolution source-wins emits exactly one UpdateTarget
\* for the conflict's path, target-wins exactly one UpdateSource and skip
\* nothing; the resolved actions are in the order of the conflicts.
C15_ChoiceDecidesAction ==
  strategy = "interactive" =>
    /\ Len(choices) <= Len(conflicts)
    /\ resolved_actions # <<>> =>
         [k \in 1..Len(resolved_actions) |->
            <<resolved_actions[k].action, resolved_actions[k].path>>]
           = Chosen(Len(choices))
    /\ resolved_actions = <<>> => Chosen(Len(choices)) = <<>>
    /\ \A k \in 1..Len(resolved_actions) :
         /\ resolved_actions[k].source_info = DictGet(source_files, resolved_actions[k].path)
         /\ resolved_actions[k].target_info = DictGet(target_files, resolved_actions[k].path)

C15_Witness ==
  /\ strategy = "interactive"
  /\ pc = "execute"
  /\ Len(choices) = 2
  /\ choices[1][1] = "t"
  /\ choices[2][1] = "s"
  /\ Len(resolved_actions) = 2

\* a conflict answered 'skip' after one answered 's' leaves one action
C15_SkipWitness ==
  /\ strategy = "interactive"
  /\ pc = "execute"
  /\ Len(choices) = 2
  /\ choices[1][1] = "s"
  /\ choices[2][1] = "skip"
  /\ Len(resolved_actions) = 1

\* the list positions of the rename steps of keep-both resolutions, and the
\* positions that belong to no keep-both pair
RenameSteps == {k \in 1..Len(actions) : actions[k].action = RENAME_TARGET}
SingleSteps ==
  {k \in 1..Len(actions) : k \notin RenameSteps /\ (k - 1) \notin RenameSteps}
Attempted(k) == \E a \in 1..Len(attempts) : attempts[a][1] = k
SucceededAt(k) == \E a \in 1..Len(attempts) : attempts[a] = <<k, TRUE>>

\* C16: a keep-both resolution counts as one success only when both its
\* rename and its copy succeed; otherwise it counts as one failure, and a
\* failed rename leaves the copy of that conflict unattempted.
C16_KeepBothIsOneUnit ==
  RealRunReturned =>
    /\ results.success =
         Cardinality({k \in SingleSteps : SucceededAt(k)})
         + Cardinality({k \in RenameSteps : SucceededAt(k) /\ SucceededAt(k + 1)})
    /\ results.failed =
         Cardinality({k \in SingleSteps : ~SucceededAt(k)})
         + Cardinality({k \in RenameSteps : ~(SucceededAt(k) /\ SucceededAt(k + 1))})
    /\ \A k \in RenameSteps : ~SucceededAt(k) => ~Attempted(k + 1)

\* C17: when the source directory does not exist the run aborts before any
\* scan and before any mutation: the target directory is not created, no
\* action is executed and no log is written.
C17_MissingSourceAborts ==
  ~srcExists =>
    /\ pc \in {"main", "exit"}
    /\ tgtExists = tree0.tgtExists
    /\ tgtTree = tree0.tgt
    /\ srcTree = tree0.src
    /\ DOMAIN source_files = {}
    /\ DOMAIN target_files = {}
    /\ actions = <<>>
    /\ conflicts = <<>>
    /\ syncMode = "not_called"
    /\ attempts = <<>>
    /\ logFile = None

C17_Witness ==
  /\ ~srcExists
  /\ pc = "exit"
  /\ ~tgtExists

\* C18: a run with --dry-run mutates nothing from start to finish: it
\* creates no directory, not even an absent target root, copies or renames
\* no file and writes no log.
C18_DryRunInvocationMutatesNothing ==
  syncMode = "dry" =>
    /\ tgtExists = tree0.tgtExists
    /\ srcTree = tree0.src
    /\ tgtTree = tree0.tgt
    /\ logFile = None

\* the log could not be written at the end of a real run
LogWriteFailed == RealRunReturned /\ logFile = None

\* C19: a failure to write the log at the end of a real run rolls back none
\* of the applied file changes, and sync returns the counts of the actions
\* that succeeded and failed, as it does when the log is written.
C19_LogFailureIsContained ==
  LogWriteFailed =>
    /\ results.success = Cardinality({k \in 1..Len(attempts) : attempts[k][2]})
    /\ results.failed = Cardinality({k \in 1..Len(attempts) : ~attempts[k][2]})
    /\ results.success + results.failed = Len(actions)
    /\ \A k \in 1..Len(actions) :
         SucceededAt(k) =>
           /\ actions[k].action \in {COPY_TO_TARGET, UPDATE_TARGET} =>
                /\ actions[k].path \in DOMAIN tgtTree
                /\ tgtTree[actions[k].path] = tree0.src[actions[k].path]
           /\ actions[k].action \in {COPY_TO_SOURCE, UPDATE_SOURCE} =>
                /\ actions[k].path \in DOMAIN srcTree
                /\ srcTree[actions[k].path] = tree0.tgt[actions[k].path]

C19_Witness ==
  /\ LogWriteFailed
  /\ results = [success |-> 1, failed |-> 1, skipped |-> 0]
  /\ tgtTree # tree0.tgt

\* main has its final list: the one it hands to sync
PlanBuilt == pc \in {"execute", "confirm", "sync", "exit"}

ExecutedNow ==
  /\ pc = "sync"
  /\ Len(attempts') = Len(attempts) + 1
  /\ attempts'[Len(attempts')][2]

\* tree after is tree before with the donor's file at path p, all else as it was
OnlyWritten(before, after, p, donor) ==
  /\ DOMAIN after = (DOMAIN before) \cup {p}
  /\ after[p].content = donor[p].content
  /\ after[p].mtime = donor[p].mtime
  /\ \A q \in (DOMAIN before) \ {p} : after[q] = before[q]

\* C21: a successfully executed CopyToTarget or UpdateTarget makes the
\* target's file at the action's path equal in content and modification time
\* to the source's file, and leaves the source tree and every other path of
\* the target tree unchanged; CopyToSource and UpdateSource do the mirror
\* image with the target as donor.
C21_CopyWritesOnePath ==
  [][ ExecutedNow =>
        /\ actions[i].action \in {COPY_TO_TARGET, UPDATE_TARGET} =>
             /\ OnlyWritten(tgtTree, tgtTree', actions[i].path, srcTree)
             /\ srcTree' = srcTree
        /\ actions[i].action \in {COPY_TO_SOURCE, UPDATE_SOURCE} =>
             /\ OnlyWritten(srcTree, srcTree', actions[i].path, tgtTree)
             /\ tgtTree' = tgtTree ]_vars

\* a real run in which a copy to the target and a copy to the source both
\* succeeded, each beside another file of the receiving tree
C21_Witness ==
  /\ RealRunReturned
  /\ \E j, k \in 1..Len(actions) :
       /\ SucceededAt(j) /\ actions[j].action \in {COPY_TO_TARGET, UPDATE_TARGET}
       /\ SucceededAt(k) /\ actions[k].action \in {COPY_TO_SOURCE, UPDATE_SOURCE}
       /\ Cardinality(DOMAIN tgtTree) = 2
       /\ tgtTree # tree0.tgt
       /\ srcTree # tree0.src


\* ------------------------------------------------------------- sync called as a method
\* DirectorySync is a class: a program other than main can build one object
\* and call its sync any number of times, each time with a list of its own.

\* what the 'action' key of a dict can hold: the seven members of SyncAction
\* and the string resolve_conflicts uses
Kinds ==
  {COPY_TO_TARGET, COPY_TO_SOURCE, UPDATE_TARGET, UPDATE_SOURCE,
   DELETE_FROM_TARGET, DELETE_FROM_SOURCE, CONFLICT, RENAME_TARGET}

\* the lists handed to sync: empty, or one action of any kind on any path
CallerLists ==
  {<<>>} \cup {<<Action(k, p, None, None)>> : k \in Kinds, p \in PlainPaths}

\* the trees the object is built over: every file readable, written at
\* time 1, and all files of one root of the same content c
CallerTrees(c) ==
  {t \in Trees :
     \A p \in DOMAIN t : t[p].readable /\ t[p].mtime = 1 /\ t[p].content = c}

\* DirectorySync(source, target): self.actions = [], nothing is read or written
NewDirectorySync ==
  /\ srcExists = TRUE
  /\ tgtExists = TRUE
  /\ srcTree \in CallerTrees("x")
  /\ tgtTree \in CallerTrees("y")
  /\ pc = "idle"
  /\ source_files = ScanDirectory(FALSE, EmptyTree)
  /\ target_files = ScanDirectory(FALSE, EmptyTree)
  /\ actions = <<>>
  /\ conflicts = <<>>
  /\ resolved_actions = <<>>
  /\ ci = 0
  /\ nInvalid = 0
  /\ i = 0
  /\ results = NoResults
  /\ self_actions = <<>>
  /\ logFile = None
  /\ now = 1
  /\ strategy = "none"
  /\ syncMode = "not_called"
  /\ nSkipped = 0
  /\ attempts = <<>>
  /\ tree0 = [src |-> srcTree, tgt |-> tgtTree, tgtExists |-> tgtExists]
  /\ confirm = "none"
  /\ choices = <<>>

\* the caller makes the list of its next call, before the first call or
\* after the previous one has returned
CallerBuildsList ==
  /\ pc \in {"idle", "exit"}
  /\ \E list \in CallerLists :
       /\ Len(self_actions) + Len(list) <= MaxExecuted
       /\ actions' = list
  /\ pc' = "call"
  /\ UNCHANGED <<fsVars, scanVars, conflicts, resolveVars, syncVars, now,
                 strategy, tree0, confirm, choices>>

\* synchronizer.sync(actions, dry_run), on the object the earlier calls used
CallSync ==
  /\ pc = "call"
  /\ \E dry_run \in BOOLEAN : Sync(dry_run)
  /\ UNCHANGED confirm

MethodNext ==
  \/ CallerBuildsList
  \/ CallSync
  \/ SyncStep

SpecMethod == NewDirectorySync /\ [][MethodNext]_vars


\* ------------------------------------------------------------- C22
\* the kinds _execute_action has a branch for
CopyKinds == {COPY_TO_TARGET, COPY_TO_SOURCE, UPDATE_TARGET, UPDATE_SOURCE}

\* the step taken is a call of _execute_action, on actions[i]
AttemptedNow == pc = "sync" /\ Len(attempts') = Len(attempts) + 1

\* C22: an action whose kind the executor has no branch for
\* (DeleteFromTarget, DeleteFromSource, Conflict, the string rename_target)
\* is never counted as a success nor stamped "success" by a step that leaves
\* both trees untouched.
C22_NoSuccessWithoutEffect ==
  [][ (/\ AttemptedNow
       /\ actions[i].action \notin CopyKinds
       /\ srcTree' = srcTree
       /\ tgtTree' = tgtTree)
      => /\ results'.success = results.success
         /\ actions'[i].status # Some("success")
         /\ self_actions' = self_actions ]_vars

\* ------------------------------------------------------------- C23
\* the step taken is the return of a real run of sync that wrote the log
LogWrittenNow ==
  /\ pc \in {"call", "sync"}
  /\ pc' = "exit"
  /\ syncMode' = "real"
  /\ logFile' # None
  /\ logFile' # logFile

\* C23: the log a real run of sync writes lists exactly the actions that
\* succeeded in that call, in order, and none that an earlier call on the same
\* object executed.
C23_LogIsPerCall ==
  [][ LogWrittenNow =>
        \A doc \in logFile' :
          LET done == SelectSeq(attempts', LAMBDA a : a[2])
          IN  /\ Len(doc.actions) = Len(done)
              /\ \A k \in 1..Len(done) :
                   /\ doc.actions[k].action = actions'[done[k][1]].action.value
                   /\ doc.actions[k].path = actions'[done[k][1]].path ]_vars

====
